---- MODULE Spec2Model ----
(***************************************************************************)
(* Model of cisco_additional_facts.py: the run_module dispatcher with its  *)
(* fact extractors against a device whose commands may fail, the IOS and   *)
(* NX-OS route parsers, format_mac_address, the scan of                    *)
(* get_mac_address_table and the detail parse of _get_interfaces_nxos.     *)
(***************************************************************************)
EXTENDS Integers, Sequences, FiniteSets, TLC

VARIABLES
    \* ---- run_module ----
    pc,                 \* position of run_module
    device,             \* the device behind run_commands (fixed for a play)
    check_mode,         \* module.check_mode
    raw_fact_type,      \* the fact_type the task supplied
    fact_type,          \* params['fact_type'] after lines 593-599
    operating_system,   \* the detected dialect
    facts,              \* result['ansible_facts']
    sent,               \* commands handed to run_commands, in order
    exited,             \* what exit_json was called with, or NotExited
    prev,               \* outcome of the previous invocation in the same play
    \* ---- get_routes: _get_routes_ios / _get_routes_nxos ----
    rt_pc,              \* position of the parser
    rt_os,              \* operating_system
    rt_type,            \* route_type
    rt_lines,           \* stdout[1].splitlines()
    rt_i,               \* index of the line the loop is at
    rt_result,          \* the list returned
    nx_routes,          \* routes: references to route dicts
    nx_objs,            \* the route dicts created so far
    nx_route_obj,       \* route_obj: a reference, 0 for None
    nx_next_hops,       \* next_hops
    ios_routes,         \* routes
    ios_first_line,     \* first_line
    ios_route,          \* route (None while unbound)
    \* ---- format_mac_address ----
    mac_pc,             \* "input", then "once" and "twice" formatted
    mac_source,         \* the digit pairs and delimiter style the input renders
    mac_address,        \* the argument
    mac_once,           \* format_mac_address(mac_address)
    mac_twice,          \* format_mac_address of that
    \* ---- get_mac_address_table ----
    mt_pc,              \* position of the scan
    mt_lines,           \* stdout[1].splitlines()
    mt_i,               \* index of the line the loop is at
    mt_table,           \* mac_address_table: the dict, in insertion order
    mt_result,          \* the value returned
    \* ---- _get_interfaces_nxos: one interface of the brief table ----
    if_pc,              \* position of the detail parse
    if_lines,           \* lines2[1:]
    if_i,               \* index of the line the inner loop is at
    if_fields,          \* the iface_* locals
    if_interfaces       \* interfaces: the dict, in insertion order

runVars == <<pc, device, check_mode, raw_fact_type, fact_type,
             operating_system, facts, sent, exited, prev>>

rtVars == <<rt_pc, rt_os, rt_type, rt_lines, rt_i, rt_result, nx_routes, nx_objs,
            nx_route_obj, nx_next_hops, ios_routes, ios_first_line, ios_route>>

macVars == <<mac_pc, mac_source, mac_address, mac_once, mac_twice>>

mtVars == <<mt_pc, mt_lines, mt_i, mt_table, mt_result>>

ifVars == <<if_pc, if_lines, if_i, if_fields, if_interfaces>>

vars == <<runVars, rtVars, macVars, mtVars, ifVars>>

----------------------------------------------------------------------------
(* Bounds of the model *)

\* at most this many commands of the device fail
MaxFailing == 1
\* at most this many rows below the header of `show vrf`
MaxVrfs == 2
\* at most this many lines of NX-OS `show ip route` output
MaxNxLines == 4
\* at most this many lines of IOS `show ip route` output
MaxIosLines == 2
\* free-form MAC strings have at most this many characters
MaxMacChars == 3
\* at most this many lines of `show mac address-table dynamic` output
MaxMacLines == 3
\* at most this many lines below the first of `show interf <name>` output
MaxIfLines == 3

----------------------------------------------------------------------------
(* Python values: None and a present value are kept apart *)

None == [none |-> TRUE, v |-> <<>>]
Some(x) == [none |-> FALSE, v |-> x]

ROUTE_TYPES == <<"BGP", "connected", "OSPF", "static">>

\* str.lower() on the route type names
Lower(s) ==
    CASE s = "BGP" -> "bgp"
      [] s = "OSPF" -> "ospf"
      [] OTHER -> s

FactTypes == {"all", "interfaces", "inventory", "license", "mac_address_table",
              "routes", "route_neighbors", "vrfs"}

\* what a task may supply: a supported selector, an unsupported one, or
\* nothing (AnsibleModule then stores None under the key)
SuppliedFactTypes == FactTypes \cup {"bogus", "None"}

----------------------------------------------------------------------------
(* The device: the first line of its version banner, the rows of its      *)
(* `show vrf` table, whether its tables hold entries, and the commands    *)
(* that fail on it.                                                        *)

Banners == {"Cisco IOS Software", "Cisco NX-OS Software", "Cisco Nexus Operating System", "Unknown"}

\* rows of `show vrf` below the header: the first column and the last
\* column, the latter as its comma-separated parts
VrfTable == <<
    [name |-> "Mgmt-intf", last |-> <<"Gi0">>],
    [name |-> "blue",      last |-> <<"ipv4">>],
    [name |-> "red",       last |-> <<"--">>],
    [name |-> "green",     last |-> <<"Gi1", "Gi2">>] >>

VrfRowsOf(n) == SubSeq(VrfTable, 1, n)

\* a command: <<text, vrf, route word>>
Cmd(text) == <<text, "", "">>

RouteCmd(os, route_type, vrf) ==
    IF os = "IOS"
    THEN <<IF vrf = "" THEN "show ip route secondary" ELSE "show ip route vrf secondary",
           vrf, Lower(route_type)>>
    ELSE <<IF vrf = "" THEN "show ip route | begin ubest" ELSE "show ip route vrf | begin ubest",
           vrf, IF route_type = "connected" THEN "direct" ELSE Lower(route_type)>>

OSOfBanner(line0) ==
    IF line0 = "Cisco IOS Software" THEN "IOS"
    ELSE IF line0 \in {"Cisco NX-OS Software", "Cisco Nexus Operating System"} THEN "NXOS"
    ELSE "IOS"

RouteKinds == {ROUTE_TYPES[i] : i \in 1..Len(ROUTE_TYPES)}

CommandsOf(os, nvrf) ==
    {Cmd("show version"), Cmd("show inventory"),
     Cmd("show mac address-table dynamic"),
     Cmd("show ip ospf neighbor | begin Neighbor"),
     Cmd("show ip bgp summary | begin Neighbor"),
     Cmd("show vrf")}
    \cup (IF os = "IOS" THEN {Cmd("show license all")}
          ELSE {Cmd("show license"), Cmd("show ip interf br oper vrf all"),
                Cmd("show interf Eth1/1")})
    \cup {RouteCmd(os, k, "") : k \in RouteKinds}
    \cup {RouteCmd(os, k, VrfTable[i].name) : k \in RouteKinds, i \in 1..nvrf}

SeqsUpTo(S, n) == UNION { [1..k -> S] : k \in 0..n }

\* the subsets of S with at most n elements
RECURSIVE SubsetsUpTo(_, _)
SubsetsUpTo(S, n) ==
    IF n = 0 THEN {{}}
    ELSE LET smaller == SubsetsUpTo(S, n - 1)
         IN smaller \cup {T \cup {x} : T \in smaller, x \in S}

Devices ==
    UNION { UNION { { [banner |-> b, nvrf |-> n, empty |-> e, failing |-> f]
                      : f \in SubsetsUpTo(CommandsOf(OSOfBanner(b), n), MaxFailing),
                        e \in BOOLEAN }
                    : n \in 0..MaxVrfs }
            : b \in Banners }

----------------------------------------------------------------------------
(* The extractors. Each yields the commands it sent, whether an exception *)
(* left it, and the value it returned otherwise.                           *)

Returned(cmds, val) == [raised |-> FALSE, cmds |-> cmds, val |-> val]
Raised(cmds) == [raised |-> TRUE, cmds |-> cmds, val |-> None]

\* run_commands(module, ['term len 0', cmd]) raises when the command fails
Fails(dev, cmd) == cmd \in dev.failing

\* get_interfaces / _get_interfaces_nxos
get_interfaces(dev, os) ==
    IF os # "NXOS" THEN Returned(<<>>, None)
    ELSE LET brief == Cmd("show ip interf br oper vrf all")
             detail == Cmd("show interf Eth1/1")
         IN IF Fails(dev, brief) THEN Raised(<<brief>>)
            ELSE IF dev.empty THEN Returned(<<brief>>, Some(<<>>))
            ELSE IF Fails(dev, detail) THEN Raised(<<brief, detail>>)
            ELSE Returned(<<brief, detail>>, Some(<<"Eth1/1">>))

\* get_inventory
get_inventory(dev) ==
    LET c == Cmd("show inventory")
    IN IF Fails(dev, c) THEN Raised(<<c>>)
       ELSE Returned(<<c>>, Some(IF dev.empty THEN <<>> ELSE <<"Chassis">>))

\* get_license, _get_license_ios, _get_license_nxos
get_license(dev, os) ==
    LET c == IF os = "IOS" THEN Cmd("show license all") ELSE Cmd("show license")
    IN IF Fails(dev, c) THEN Raised(<<c>>)
       ELSE Returned(<<c>>, Some(<<"license text">>))

\* get_mac_address_table: None when no entry was found
get_mac_address_table(dev) ==
    LET c == Cmd("show mac address-table dynamic")
    IN IF Fails(dev, c) THEN Raised(<<c>>)
       ELSE Returned(<<c>>, IF dev.empty THEN None ELSE Some(<<"Po10">>))

\* the routes the device holds for one route type and VRF
DeviceRoutes(dev, route_type, vrf) ==
    IF dev.empty THEN <<>> ELSE <<[kind |-> route_type, vrf |-> vrf]>>

\* get_routes -> _get_routes_ios / _get_routes_nxos
get_routes(dev, os, route_type, vrf) ==
    LET c == RouteCmd(os, route_type, vrf)
    IN IF Fails(dev, c) THEN Raised(<<c>>)
       ELSE Returned(<<c>>, Some(DeviceRoutes(dev, route_type, vrf)))

\* the loop without its try: the first failing route type ends it
RECURSIVE RoutesLoop_StopAtFailure(_, _, _, _, _)
RoutesLoop_StopAtFailure(dev, os, vrf, i, acc) ==
    IF i > Len(ROUTE_TYPES) THEN acc
    ELSE LET r == get_routes(dev, os, ROUTE_TYPES[i], vrf)
         IN IF r.raised THEN [cmds |-> acc.cmds \o r.cmds, routes |-> acc.routes]
            ELSE RoutesLoop_StopAtFailure(dev, os, vrf, i + 1,
                    [cmds |-> acc.cmds \o r.cmds, routes |-> acc.routes \o r.val.v])

\* for route_type in ROUTE_TYPES: try: routes.extend(get_routes(...))
\*                                except Exception: logging.warning(e)
RECURSIVE RoutesLoop(_, _, _, _, _)
RoutesLoop(dev, os, vrf, i, acc) ==
    IF i > Len(ROUTE_TYPES) THEN acc
    ELSE LET r == get_routes(dev, os, ROUTE_TYPES[i], vrf)
         IN RoutesLoop(dev, os, vrf, i + 1,
                [cmds |-> acc.cmds \o r.cmds,
                 routes |-> IF r.raised THEN acc.routes ELSE acc.routes \o r.val.v])

AllRouteTypes(dev, os, vrf) ==
    RoutesLoop(dev, os, vrf, 1, [cmds |-> <<>>, routes |-> <<>>])

\* get_route_neighbors: the OSPF table, then the BGP table
get_route_neighbors(dev) ==
    LET o == Cmd("show ip ospf neighbor | begin Neighbor")
        b == Cmd("show ip bgp summary | begin Neighbor")
    IN IF Fails(dev, o) THEN Raised(<<o>>)
       ELSE IF Fails(dev, b) THEN Raised(<<o, b>>)
       ELSE Returned(<<o, b>>, Some(IF dev.empty THEN <<>> ELSE <<"OSPF", "BGP">>))

\* splitter[-1].startswith('ipv')
StartsWithIpv(tok) == tok \in {"ipv4", "ipv6", "ipv4,ipv6"}

\* lines 345-349: the interface list of a `show vrf` row
VrfInterfaces(row) ==
    IF StartsWithIpv(row.last[1]) THEN None
    ELSE IF row.last[1] = "--" THEN None
    ELSE Some(row.last)

\* lines 342-358: one row of `show vrf`
VrfRecord(dev, os, row) ==
    LET rl == AllRouteTypes(dev, os, row.name)
    IN [cmds |-> rl.cmds,
        rec |-> [name |-> row.name, interfaces |-> VrfInterfaces(row),
                 routes |-> rl.routes]]

RECURSIVE VrfRows(_, _, _, _, _)
VrfRows(dev, os, rows, i, acc) ==
    IF i > Len(rows) THEN acc
    ELSE LET r == VrfRecord(dev, os, rows[i])
         IN VrfRows(dev, os, rows, i + 1,
                [cmds |-> acc.cmds \o r.cmds, vrfs |-> Append(acc.vrfs, r.rec)])

\* get_vrfs
get_vrfs(dev, os) ==
    LET c == Cmd("show vrf")
    IN IF Fails(dev, c) THEN Raised(<<c>>)
       ELSE LET done == VrfRows(dev, os, VrfRowsOf(dev.nvrf), 1,
                                [cmds |-> <<c>>, vrfs |-> <<>>])
            IN Returned(done.cmds, Some(done.vrfs))

----------------------------------------------------------------------------
(* run_module *)

EmptyFacts == [k \in {} |-> None]

\* lines 620-627
InitialFacts ==
    [k \in {"ansible_net_inventory", "ansible_net_license",
            "ansible_net_mac_address_table", "ansible_net_routes",
            "ansible_net_route_neighbors", "ansible_net_vrfs"} |-> None]

SetFact(f, key, val) == [k \in DOMAIN f \cup {key} |-> IF k = key THEN val ELSE f[k]]

\* the selector is used as supplied
NormalizeFactType_Unchecked(raw) == raw

\* lines 593-599
NormalizeFactType(raw) == IF raw \in FactTypes THEN raw ELSE "all"

RunInit ==
    /\ pc = "params"
    /\ device \in Devices
    /\ check_mode \in BOOLEAN
    /\ raw_fact_type \in SuppliedFactTypes
    /\ fact_type = raw_fact_type
    /\ operating_system = "IOS"
    /\ facts = EmptyFacts
    /\ sent = <<>>
    /\ exited = <<>>
    /\ prev = <<>>

\* lines 593-599
ParseParams ==
    /\ pc = "params"
    /\ fact_type' = NormalizeFactType(raw_fact_type)
    /\ pc' = "check"
    /\ UNCHANGED <<device, check_mode, raw_fact_type, operating_system, facts,
                   sent, exited, prev, rtVars, macVars, mtVars, ifVars>>

\* lines 604-605: exit_json ends the process
CheckModeExit ==
    /\ pc = "check"
    /\ check_mode
    /\ exited' = <<[changed |-> FALSE, ansible_facts |-> facts]>>
    /\ pc' = "done"
    /\ UNCHANGED <<device, check_mode, raw_fact_type, fact_type,
                   operating_system, facts, sent, prev, rtVars, macVars, mtVars, ifVars>>

\* the version banner is fetched whatever the mode
DetectOS_IgnoringCheckMode ==
    /\ pc = "check"
    /\ sent' = Append(sent, Cmd("show version"))
    /\ IF Fails(device, Cmd("show version"))
       THEN /\ pc' = "raised"
            /\ UNCHANGED <<operating_system, facts>>
       ELSE /\ operating_system' = OSOfBanner(device.banner)
            /\ facts' = InitialFacts
            /\ pc' = "interfaces"
    /\ UNCHANGED <<device, check_mode, raw_fact_type, fact_type, exited, prev, rtVars, macVars, mtVars, ifVars>>

\* lines 612-628
DetectOS ==
    /\ pc = "check"
    /\ ~check_mode
    /\ sent' = Append(sent, Cmd("show version"))
    /\ IF Fails(device, Cmd("show version"))
       THEN /\ pc' = "raised"
            /\ UNCHANGED <<operating_system, facts>>
       ELSE /\ operating_system' = OSOfBanner(device.banner)
            /\ facts' = InitialFacts
            /\ pc' = "interfaces"
    /\ UNCHANGED <<device, check_mode, raw_fact_type, fact_type, exited, prev, rtVars, macVars, mtVars, ifVars>>

\* an extractor whose call is not inside a try: its exception leaves run_module
Unguarded(r, key, next) ==
    /\ sent' = sent \o r.cmds
    /\ IF r.raised
       THEN pc' = "raised" /\ UNCHANGED facts
       ELSE pc' = next /\ facts' = SetFact(facts, key, r.val)

\* an extractor called inside try/except Exception: the value stays None
Guarded(r, key, next) ==
    /\ sent' = sent \o r.cmds
    /\ facts' = SetFact(facts, key, IF r.raised THEN None ELSE r.val)
    /\ pc' = next

Skip(next) == pc' = next /\ UNCHANGED <<facts, sent>>

\* lines 629-630
Interfaces ==
    /\ pc = "interfaces"
    /\ IF fact_type = "interfaces" \/ (fact_type = "all" /\ operating_system = "NXOS")
       THEN Unguarded(get_interfaces(device, operating_system),
                      "ansible_net_interfaces", "inventory")
       ELSE Skip("inventory")
    /\ UNCHANGED <<device, check_mode, raw_fact_type, fact_type,
                   operating_system, exited, prev, rtVars, macVars, mtVars, ifVars>>

\* lines 631-632
Inventory ==
    /\ pc = "inventory"
    /\ IF fact_type = "inventory" \/ fact_type = "all"
       THEN Unguarded(get_inventory(device), "ansible_net_inventory", "license")
       ELSE Skip("license")
    /\ UNCHANGED <<device, check_mode, raw_fact_type, fact_type,
                   operating_system, exited, prev, rtVars, macVars, mtVars, ifVars>>

\* lines 633-634
License ==
    /\ pc = "license"
    /\ IF fact_type = "license" \/ fact_type = "all"
       THEN Unguarded(get_license(device, operating_system),
                      "ansible_net_license", "mac_address_table")
       ELSE Skip("mac_address_table")
    /\ UNCHANGED <<device, check_mode, raw_fact_type, fact_type,
                   operating_system, exited, prev, rtVars, macVars, mtVars, ifVars>>

\* lines 635-642
MacAddressTable ==
    /\ pc = "mac_address_table"
    /\ IF fact_type = "mac_address_table" \/ fact_type = "all"
       THEN Guarded(get_mac_address_table(device),
                    "ansible_net_mac_address_table", "routes")
       ELSE Skip("routes")
    /\ UNCHANGED <<device, check_mode, raw_fact_type, fact_type,
                   operating_system, exited, prev, rtVars, macVars, mtVars, ifVars>>

\* lines 643-653
Routes ==
    /\ pc = "routes"
    /\ IF fact_type = "routes" \/ fact_type = "all"
       THEN LET rl == AllRouteTypes(device, operating_system, "")
            IN /\ sent' = sent \o rl.cmds
               /\ facts' = SetFact(facts, "ansible_net_routes",
                                   IF Len(rl.routes) = 0 THEN None ELSE Some(rl.routes))
               /\ pc' = "route_neighbors"
       ELSE Skip("route_neighbors")
    /\ UNCHANGED <<device, check_mode, raw_fact_type, fact_type,
                   operating_system, exited, prev, rtVars, macVars, mtVars, ifVars>>

\* lines 654-661
RouteNeighbors ==
    /\ pc = "route_neighbors"
    /\ IF fact_type = "route_neighbors" \/ fact_type = "all"
       THEN Guarded(get_route_neighbors(device), "ansible_net_route_neighbors", "vrfs")
       ELSE Skip("vrfs")
    /\ UNCHANGED <<device, check_mode, raw_fact_type, fact_type,
                   operating_system, exited, prev, rtVars, macVars, mtVars, ifVars>>

\* lines 662-664
Vrfs ==
    /\ pc = "vrfs"
    /\ IF fact_type = "vrfs" \/ fact_type = "all"
       THEN Unguarded(get_vrfs(device, operating_system), "ansible_net_vrfs", "exit")
       ELSE Skip("exit")
    /\ UNCHANGED <<device, check_mode, raw_fact_type, fact_type,
                   operating_system, exited, prev, rtVars, macVars, mtVars, ifVars>>

\* line 667
ExitJson ==
    /\ pc = "exit"
    /\ exited' = <<[changed |-> FALSE, ansible_facts |-> facts]>>
    /\ pc' = "done"
    /\ UNCHANGED <<device, check_mode, raw_fact_type, fact_type,
                   operating_system, facts, sent, prev, rtVars, macVars, mtVars, ifVars>>

\* the play invokes the module again on the same device, in the same mode,
\* with the default fact_type spelled out
Reinvoke ==
    /\ pc \in {"done", "raised"}
    /\ prev = <<>>
    /\ prev' = <<[raw_fact_type |-> raw_fact_type, pc |-> pc, sent |-> sent,
                  exited |-> exited]>>
    /\ raw_fact_type' = "all"
    /\ fact_type' = "all"
    /\ pc' = "params"
    /\ operating_system' = "IOS"
    /\ facts' = EmptyFacts
    /\ sent' = <<>>
    /\ exited' = <<>>
    /\ UNCHANGED <<device, check_mode, rtVars, macVars, mtVars, ifVars>>

----------------------------------------------------------------------------
(* Text of command output. A line is its whitespace-separated tokens and   *)
(* whether it starts with whitespace; a token is the sequence of its       *)
(* pieces, the characters the parsers split on or replace (comma, slash,  *)
(* percent, star) being pieces of their own.                              *)

Line(indent, toks) == [indent |-> indent, toks |-> toks]

Min(S) == CHOOSE x \in S : \A y \in S : x <= y

\* tok.replace(',', '')
StripCommas(tok) == SelectSeq(tok, LAMBDA a : a # ",")

\* tok.split(sep)[0]
BeforeSep(tok, sep) ==
    LET at == {i \in 1..Len(tok) : tok[i] = sep}
    IN IF at = {} THEN tok ELSE SubSeq(tok, 1, Min(at) - 1)

\* line.replace(',', '').split()
SplitNoCommas(line) ==
    SelectSeq([i \in 1..Len(line.toks) |-> StripCommas(line.toks[i])],
              LAMBDA t : t # <<>>)

\* the dotted quads that occur in the outputs
Octets(a) ==
    CASE a = "0.0.0.0"     -> <<0, 0, 0, 0>>
      [] a = "10.0.0.1"    -> <<10, 0, 0, 1>>
      [] a = "10.0.0.2"    -> <<10, 0, 0, 2>>
      [] a = "10.1.0.0"    -> <<10, 1, 0, 0>>
      [] a = "172.16.5.0"  -> <<172, 16, 5, 0>>
      [] a = "192.168.1.0" -> <<192, 168, 1, 0>>
      [] a = "8.8.8.0"     -> <<8, 8, 8, 0>>
      [] a = "100.64.0.0"  -> <<100, 64, 0, 0>>
      [] OTHER             -> <<>>

\* ipaddress.IPv4Address(tok) does not raise
IsIPv4(tok) == Len(tok) = 1 /\ Octets(tok[1]) # <<>>

\* ipaddress.IPv4Address(tok).is_private
is_private(tok) ==
    LET o == Octets(tok[1])
    IN \/ o[1] \in {0, 10, 127}
       \/ o[1] = 169 /\ o[2] = 254
       \/ o[1] = 172 /\ o[2] \in 16..31
       \/ o[1] = 192 /\ o[2] = 0 /\ o[3] = 0 /\ (o[4] \in 0..7 \/ o[4] \in 170..171)
       \/ o[1] = 192 /\ o[2] = 0 /\ o[3] = 2
       \/ o[1] = 192 /\ o[2] = 168
       \/ o[1] = 198 /\ o[2] \in 18..19
       \/ o[1] = 198 /\ o[2] = 51 /\ o[3] = 100
       \/ o[1] = 203 /\ o[2] = 0 /\ o[3] = 113
       \/ o[1] \in 240..255

DefaultRoute == <<"0.0.0.0", "/", "0">>

\* substring tests on a line
HasPiece(line, pieces) ==
    \E i \in 1..Len(line.toks) : \E j \in 1..Len(line.toks[i]) : line.toks[i][j] \in pieces

----------------------------------------------------------------------------
(* _get_routes_nxos *)

\* lines 288-290
NxKind(route_type) ==
    IF Lower(route_type) \in {"bgp", "eigrp", "isis", "ospf"}
    THEN (IF route_type = "BGP" THEN "BGP" ELSE "OSPF")
    ELSE (IF route_type = "connected" THEN "Connected" ELSE "Static")

\* every block is kept
NxRoutable_Unfiltered(route, route_type) == TRUE

\* line 287
NxRoutable(route, route_type) ==
    \/ is_private(BeforeSep(route, "/"))
    \/ route = DefaultRoute
    \/ Lower(route_type) = "connected"

\* the interface column read for every route type
NxNextHop_AlwaysInterface(line, route_type) ==
    LET splitter == SplitNoCommas(line)
        next_hop_address == BeforeSep(splitter[2], "%")
    IN IF IsIPv4(next_hop_address)
       THEN IF Len(splitter) >= 3
            THEN [address |-> Some(next_hop_address), interface |-> Some(splitter[3])]
            ELSE [address |-> None, interface |-> Some(next_hop_address)]
       ELSE [address |-> None, interface |-> Some(next_hop_address)]

\* lines 293-303: the next hop of a `via` line
NxNextHop(line, route_type) ==
    LET splitter == SplitNoCommas(line)
        next_hop_address == BeforeSep(splitter[2], "%")
    IN IF IsIPv4(next_hop_address)
       THEN IF Lower(route_type) = "connected" \/ Lower(route_type) = "ospf"
            THEN IF Len(splitter) >= 3
                 THEN [address |-> Some(next_hop_address), interface |-> Some(splitter[3])]
                 \* splitter[2] raises inside the try: the except branch runs
                 ELSE [address |-> None, interface |-> Some(next_hop_address)]
            ELSE [address |-> Some(next_hop_address), interface |-> None]
       ELSE [address |-> None, interface |-> Some(next_hop_address)]

\* lines 282-283 and 305-306: route_obj['next_hop'] = next_hops; routes.append(route_obj)
NxEmit ==
    /\ nx_objs' = [nx_objs EXCEPT ![nx_route_obj].next_hop = Some(nx_next_hops)]
    /\ nx_routes' = Append(nx_routes, nx_route_obj)

\* the dicts the returned list refers to
NxDeref(objs, refs) == [j \in 1..Len(refs) |-> objs[refs[j]]]

\* lines 280-290: a line containing 'ubest'
NxUbestLine ==
    /\ rt_pc = "loop" /\ rt_os = "NXOS" /\ rt_i <= Len(rt_lines)
    /\ HasPiece(rt_lines[rt_i], {"ubest"})
    /\ LET route == StripCommas(rt_lines[rt_i].toks[1])
           objs == IF nx_route_obj # 0
                   THEN [nx_objs EXCEPT ![nx_route_obj].next_hop = Some(nx_next_hops)]
                   ELSE nx_objs
       IN /\ nx_routes' = IF nx_route_obj # 0 THEN Append(nx_routes, nx_route_obj)
                          ELSE nx_routes
          /\ nx_next_hops' = <<>>
          /\ IF ~IsIPv4(BeforeSep(route, "/"))
             THEN /\ rt_pc' = "raised"
                  /\ nx_objs' = objs
                  /\ UNCHANGED <<nx_route_obj, rt_i>>
             ELSE /\ IF NxRoutable(route, rt_type)
                     THEN /\ nx_objs' = Append(objs, [route |-> route, kind |-> NxKind(rt_type),
                                                      next_hop |-> None])
                          /\ nx_route_obj' = Len(objs) + 1
                     ELSE /\ nx_objs' = objs
                          /\ UNCHANGED nx_route_obj
                  /\ rt_i' = rt_i + 1
                  /\ UNCHANGED rt_pc
    /\ UNCHANGED <<rt_os, rt_type, rt_lines, rt_result, ios_routes, ios_first_line, ios_route>>
    /\ UNCHANGED <<runVars, macVars, mtVars, ifVars>>

\* lines 291-303: a line containing 'via' and not 'ubest'
NxViaLine ==
    /\ rt_pc = "loop" /\ rt_os = "NXOS" /\ rt_i <= Len(rt_lines)
    /\ ~HasPiece(rt_lines[rt_i], {"ubest"})
    /\ HasPiece(rt_lines[rt_i], {"via"})
    /\ IF nx_route_obj = 0
       THEN rt_i' = rt_i + 1 /\ UNCHANGED <<rt_pc, nx_next_hops>>
       ELSE IF Len(SplitNoCommas(rt_lines[rt_i])) < 2
       THEN rt_pc' = "raised" /\ UNCHANGED <<rt_i, nx_next_hops>>
       ELSE /\ nx_next_hops' = Append(nx_next_hops, NxNextHop(rt_lines[rt_i], rt_type))
            /\ rt_i' = rt_i + 1
            /\ UNCHANGED rt_pc
    /\ UNCHANGED <<rt_os, rt_type, rt_lines, rt_result, nx_routes, nx_objs, nx_route_obj,
                   ios_routes, ios_first_line, ios_route>>
    /\ UNCHANGED <<runVars, macVars, mtVars, ifVars>>

\* a line with neither word
NxOtherLine ==
    /\ rt_pc = "loop" /\ rt_os = "NXOS" /\ rt_i <= Len(rt_lines)
    /\ ~HasPiece(rt_lines[rt_i], {"ubest"})
    /\ ~HasPiece(rt_lines[rt_i], {"via"})
    /\ rt_i' = rt_i + 1
    /\ UNCHANGED <<rt_pc, rt_os, rt_type, rt_lines, rt_result, nx_routes, nx_objs,
                   nx_route_obj, nx_next_hops, ios_routes, ios_first_line, ios_route>>
    /\ UNCHANGED <<runVars, macVars, mtVars, ifVars>>

\* lines 304-307
NxReturn ==
    /\ rt_pc = "loop" /\ rt_os = "NXOS" /\ rt_i > Len(rt_lines)
    /\ IF nx_next_hops # <<>>
       THEN /\ NxEmit
            /\ rt_result' = NxDeref(nx_objs', nx_routes')
       ELSE /\ UNCHANGED <<nx_objs, nx_routes>>
            /\ rt_result' = NxDeref(nx_objs, nx_routes)
    /\ rt_pc' = "returned"
    /\ UNCHANGED <<rt_os, rt_type, rt_lines, rt_i, nx_route_obj, nx_next_hops,
                   ios_routes, ios_first_line, ios_route>>
    /\ UNCHANGED <<runVars, macVars, mtVars, ifVars>>

\* lines of `show ip route ... | begin ubest`
NxUbest(prefix, len) ==
    Line(FALSE, << <<prefix, "/", len, ",">>, <<"ubest", "/", "mbest:">>, <<"1", "/", "0">> >>)

NxLines ==
    { NxUbest("10.1.0.0", "16"), NxUbest("8.8.8.0", "24"), NxUbest("0.0.0.0", "0"),
      NxUbest("not-a-prefix", "0"),
      \* *via 10.0.0.1, Eth1/1, [110/2]
      Line(TRUE, << <<"*", "via">>, <<"10.0.0.1", ",">>, <<"Eth1/1", ",">>, <<"[110/2]">> >>),
      \* *via 10.0.0.2%default
      Line(TRUE, << <<"*", "via">>, <<"10.0.0.2", "%", "default">> >>),
      \* *via Null0, [1/0]
      Line(TRUE, << <<"*", "via">>, <<"Null0", ",">>, <<"[1/0]">> >>),
      \* via
      Line(TRUE, << <<"via">> >>),
      \* an empty line
      Line(FALSE, <<>>) }

----------------------------------------------------------------------------
(* _get_routes_ios *)

Last(seq) == seq[Len(seq)]

\* line.startswith(letter + ' ') or line.startswith(letter + '*')
StartsWithCode(line, letter) ==
    /\ ~line.indent
    /\ Len(line.toks) >= 1
    /\ \/ line.toks[1] = <<letter>> /\ Len(line.toks) >= 2
       \/ Len(line.toks[1]) >= 2 /\ line.toks[1][1] = letter /\ line.toks[1][2] = "*"

\* route_type[0].upper()
FirstLetter(route_type) ==
    CASE route_type = "BGP" -> "B"
      [] route_type = "connected" -> "C"
      [] route_type = "static" -> "S"
      [] OTHER -> "O"

\* lines 217-218
IosKind(route_type) ==
    IF Lower(route_type) \in {"bgp", "eigrp", "isis"} THEN "BGP"
    ELSE IF route_type = "connected" THEN "Connected"
    ELSE "Static"

\* 'directly connected' in line
DirectlyConnected(line) ==
    \E i \in 1..Len(line.toks) - 1 :
        /\ Last(line.toks[i]) = "directly"
        /\ line.toks[i + 1][1] = "connected"

\* ' via ' in line
HasViaWord(line) ==
    \E i \in 1..Len(line.toks) - 1 :
        line.toks[i] = <<"via">> /\ (i > 1 \/ line.indent)

\* lines 215, 244, 252
IosRoutable(route, route_type) ==
    \/ is_private(BeforeSep(route, "/"))
    \/ route = DefaultRoute
    \/ Lower(route_type) = "connected"

\* lines 210-223: one line of a table that is not the OSPF one
IosPlainLine ==
    /\ rt_pc = "loop" /\ rt_os = "IOS" /\ rt_i <= Len(rt_lines)
    /\ Lower(rt_type) # "ospf"
    /\ LET line == rt_lines[rt_i]
           splitter == line.toks
       IN IF ~StartsWithCode(line, FirstLetter(rt_type))
          THEN rt_i' = rt_i + 1 /\ UNCHANGED <<rt_pc, ios_routes>>
          ELSE IF Len(splitter) < 2 \/ ~IsIPv4(BeforeSep(splitter[2], "/"))
          THEN rt_pc' = "raised" /\ UNCHANGED <<rt_i, ios_routes>>
          ELSE IF ~IosRoutable(splitter[2], rt_type)
          THEN rt_i' = rt_i + 1 /\ UNCHANGED <<rt_pc, ios_routes>>
          ELSE IF DirectlyConnected(line)
          THEN /\ ios_routes' = Append(ios_routes,
                     [route |-> splitter[2], kind |-> IosKind(rt_type),
                      next_hop |-> Some(<<[address |-> None,
                                           interface |-> Some(Last(splitter))]>>)])
               /\ rt_i' = rt_i + 1 /\ UNCHANGED rt_pc
          ELSE IF HasViaWord(line)
          THEN IF Len(splitter) < 5
               THEN rt_pc' = "raised" /\ UNCHANGED <<rt_i, ios_routes>>
               ELSE /\ ios_routes' = Append(ios_routes,
                          [route |-> splitter[2], kind |-> IosKind(rt_type),
                           next_hop |-> Some(<<[address |-> Some(StripCommas(splitter[5])),
                                                interface |-> None]>>)])
                    /\ rt_i' = rt_i + 1 /\ UNCHANGED rt_pc
          ELSE /\ ios_routes' = Append(ios_routes,
                     [route |-> splitter[2], kind |-> IosKind(rt_type), next_hop |-> None])
               /\ rt_i' = rt_i + 1 /\ UNCHANGED rt_pc
    /\ UNCHANGED <<rt_os, rt_type, rt_lines, rt_result, nx_routes, nx_objs, nx_route_obj,
                   nx_next_hops, ios_first_line, ios_route>>
    /\ UNCHANGED <<runVars, macVars, mtVars, ifVars>>

\* lines 234-242: the columns of the prefix and of the next hop address, past
\* the E1/E2/IA/N1/N2 words; ok is FALSE when an index is out of range
RECURSIVE OspfColumns(_, _, _)
OspfColumns(splitter, r, n) ==
    IF n > Len(splitter) THEN [ok |-> FALSE, route |-> <<>>, next_hop_address |-> <<>>]
    ELSE IF splitter[r] \in {<<"E1">>, <<"E2">>, <<"IA">>, <<"N1">>, <<"N2">>}
    THEN OspfColumns(splitter, r + 1, n + 1)
    ELSE [ok |-> TRUE, route |-> splitter[r], next_hop_address |-> splitter[n]]

\* lines 245-247: the route of an O line that carries its next hop
IosOspfInlineRoute(splitter, cols) ==
    [route |-> cols.route, kind |-> "OSPF",
     next_hop |-> Some(<<[address |-> Some(StripCommas(cols.next_hop_address)),
                          interface |-> Some(Last(splitter))]>>)]

\* the address taken one column early
IosOspfContinuationRoute_WrongColumn(route, splitter) ==
    [route |-> route, kind |-> "OSPF",
     next_hop |-> Some(<<[address |-> Some(StripCommas(splitter[2])),
                          interface |-> Some(Last(splitter))]>>)]

\* lines 253-254: the route of a continuation line
IosOspfContinuationRoute(route, splitter) ==
    [route |-> route, kind |-> "OSPF",
     next_hop |-> Some(<<[address |-> Some(StripCommas(splitter[3])),
                          interface |-> Some(Last(splitter))]>>)]

\* lines 227-247: a line starting with the O code
IosOspfLine ==
    /\ rt_pc = "loop" /\ rt_os = "IOS" /\ rt_i <= Len(rt_lines)
    /\ Lower(rt_type) = "ospf"
    /\ StartsWithCode(rt_lines[rt_i], "O")
    /\ LET splitter == rt_lines[rt_i].toks
           cols == OspfColumns(splitter, 2, 5)
       IN IF Len(splitter) < 3
          THEN IF Len(splitter) < 2
               THEN /\ rt_pc' = "raised"
                    /\ ios_first_line' = FALSE
                    /\ UNCHANGED <<rt_i, ios_route, ios_routes>>
               ELSE /\ ios_first_line' = FALSE
                    /\ ios_route' = Some(splitter[2])
                    /\ rt_i' = rt_i + 1
                    /\ UNCHANGED <<rt_pc, ios_routes>>
          ELSE /\ ios_first_line' = TRUE
               /\ IF ~cols.ok \/ ~IsIPv4(BeforeSep(cols.route, "/"))
                  THEN /\ rt_pc' = "raised"
                       /\ UNCHANGED <<rt_i, ios_route, ios_routes>>
                  ELSE /\ ios_route' = Some(cols.route)
                       /\ ios_routes' =
                            IF is_private(BeforeSep(cols.route, "/")) \/ cols.route = DefaultRoute
                            THEN Append(ios_routes, IosOspfInlineRoute(splitter, cols))
                            ELSE ios_routes
                       /\ rt_i' = rt_i + 1
                       /\ UNCHANGED rt_pc
    /\ UNCHANGED <<rt_os, rt_type, rt_lines, rt_result, nx_routes, nx_objs, nx_route_obj,
                   nx_next_hops>>
    /\ UNCHANGED <<runVars, macVars, mtVars, ifVars>>

\* lines 248-254: a line without the O code after an O line that held only
\* its prefix
IosOspfContinuation ==
    /\ rt_pc = "loop" /\ rt_os = "IOS" /\ rt_i <= Len(rt_lines)
    /\ Lower(rt_type) = "ospf"
    /\ ~StartsWithCode(rt_lines[rt_i], "O")
    /\ ~ios_first_line
    /\ LET splitter == rt_lines[rt_i].toks
           route == ios_route.v
       IN IF ~IsIPv4(BeforeSep(route, "/"))
          THEN rt_pc' = "raised" /\ UNCHANGED <<rt_i, ios_routes>>
          ELSE IF ~(is_private(BeforeSep(route, "/")) \/ route = DefaultRoute)
          THEN rt_i' = rt_i + 1 /\ UNCHANGED <<rt_pc, ios_routes>>
          ELSE IF Len(splitter) < 3
          THEN rt_pc' = "raised" /\ UNCHANGED <<rt_i, ios_routes>>
          ELSE /\ ios_routes' = Append(ios_routes, IosOspfContinuationRoute(route, splitter))
               /\ rt_i' = rt_i + 1
               /\ UNCHANGED rt_pc
    /\ UNCHANGED <<rt_os, rt_type, rt_lines, rt_result, nx_routes, nx_objs, nx_route_obj,
                   nx_next_hops, ios_first_line, ios_route>>
    /\ UNCHANGED <<runVars, macVars, mtVars, ifVars>>

\* lines 226-248: a line without the O code while first_line is set
IosOspfOtherLine ==
    /\ rt_pc = "loop" /\ rt_os = "IOS" /\ rt_i <= Len(rt_lines)
    /\ Lower(rt_type) = "ospf"
    /\ ~StartsWithCode(rt_lines[rt_i], "O")
    /\ ios_first_line
    /\ rt_i' = rt_i + 1
    /\ UNCHANGED <<rt_pc, rt_os, rt_type, rt_lines, rt_result, nx_routes, nx_objs,
                   nx_route_obj, nx_next_hops, ios_routes, ios_first_line, ios_route>>
    /\ UNCHANGED <<runVars, macVars, mtVars, ifVars>>

\* line 255
IosReturn ==
    /\ rt_pc = "loop" /\ rt_os = "IOS" /\ rt_i > Len(rt_lines)
    /\ rt_result' = ios_routes
    /\ rt_pc' = "returned"
    /\ UNCHANGED <<rt_os, rt_type, rt_lines, rt_i, nx_routes, nx_objs, nx_route_obj,
                   nx_next_hops, ios_routes, ios_first_line, ios_route>>
    /\ UNCHANGED <<runVars, macVars, mtVars, ifVars>>

Prefix(addr, len) == <<addr, "/", len>>

\* B/S/O <prefix> [ad/metric] via <address>, <age>[, <interface>]
IosViaLine(code, words, addr, len, hop, tail) ==
    Line(FALSE, <<code>> \o words \o
                << Prefix(addr, len), <<"[110/2]">>, <<"via">>, <<hop, ",">> >> \o tail)

\* C <prefix> is directly connected, <interface>
IosConnectedLine(code, addr, len, ifname) ==
    Line(FALSE, << <<code>>, Prefix(addr, len), <<"is">>, <<"directly">>,
                   <<"connected", ",">>, <<ifname>> >>)

\* the continuation line of an OSPF entry
IosContinuationLine ==
    Line(TRUE, << <<"[110/2]">>, <<"via">>, <<"10.0.0.1", ",">>, <<"00:00:12", ",">>,
                  <<"TenGigabitEthernet0/1">> >>)

IosLines ==
    { IosViaLine(<<"B">>, <<>>, "10.1.0.0", "16", "10.0.0.1", << <<"00:01:02">> >>),
      IosViaLine(<<"B">>, <<>>, "8.8.8.0", "24", "10.0.0.1", << <<"00:01:02">> >>),
      IosViaLine(<<"S", "*">>, <<>>, "0.0.0.0", "0", "10.0.0.1", <<>>),
      IosViaLine(<<"S">>, <<>>, "100.64.0.0", "10", "10.0.0.2", <<>>),
      IosConnectedLine("C", "8.8.8.0", "24", "GigabitEthernet0/1"),
      IosConnectedLine("S", "192.168.1.0", "24", "Null0"),
      \* B 10.1.0.0/16
      Line(FALSE, << <<"B">>, Prefix("10.1.0.0", "16") >>),
      \* B not-a-prefix
      Line(FALSE, << <<"B">>, <<"not-a-prefix">> >>),
      IosViaLine(<<"O">>, <<>>, "10.1.0.0", "16", "10.0.0.1",
                 << <<"00:00:12", ",">>, <<"Te0/1">> >>),
      IosViaLine(<<"O">>, << <<"E2">> >>, "192.168.1.0", "24", "10.0.0.2",
                 << <<"00:00:12", ",">>, <<"Te0/2">> >>),
      IosViaLine(<<"O", "*", "E2">>, <<>>, "0.0.0.0", "0", "10.0.0.2",
                 << <<"00:00:12", ",">>, <<"Te0/2">> >>),
      IosViaLine(<<"O">>, <<>>, "8.8.8.0", "24", "10.0.0.1",
                 << <<"00:00:12", ",">>, <<"Te0/1">> >>),
      \* O 172.16.5.0/24
      Line(FALSE, << <<"O">>, Prefix("172.16.5.0", "24") >>),
      \* O 8.8.8.0/24
      Line(FALSE, << <<"O">>, Prefix("8.8.8.0", "24") >>),
      \* O 172.16.5.0/24 [110/2]
      Line(FALSE, << <<"O">>, Prefix("172.16.5.0", "24"), <<"[110/2]">> >>),
      IosContinuationLine,
      \* via 10.0.0.1, TenGigabitEthernet0/1
      Line(TRUE, << <<"via">>, <<"10.0.0.1", ",">>, <<"TenGigabitEthernet0/1">> >>),
      \* an empty line
      Line(FALSE, <<>>) }

----------------------------------------------------------------------------
(* get_routes *)

RoutesInit ==
    /\ rt_pc = "loop"
    /\ rt_os \in {"IOS", "NXOS"}
    /\ rt_type \in RouteKinds
    /\ rt_lines \in IF rt_os = "IOS" THEN SeqsUpTo(IosLines, MaxIosLines)
                    ELSE SeqsUpTo(NxLines, MaxNxLines)
    /\ rt_i = 1
    /\ rt_result = <<>>
    /\ nx_routes = <<>>
    /\ nx_objs = <<>>
    /\ nx_route_obj = 0
    /\ nx_next_hops = <<>>
    /\ ios_routes = <<>>
    /\ ios_first_line = TRUE
    /\ ios_route = None

\* no route table is being parsed
RoutesIdle ==
    /\ rt_pc = "idle"
    /\ rt_os = "IOS"
    /\ rt_type = "BGP"
    /\ rt_lines = <<>>
    /\ rt_i = 1
    /\ rt_result = <<>>
    /\ nx_routes = <<>>
    /\ nx_objs = <<>>
    /\ nx_route_obj = 0
    /\ nx_next_hops = <<>>
    /\ ios_routes = <<>>
    /\ ios_first_line = TRUE
    /\ ios_route = None

\* no module run is in progress
RunIdle ==
    /\ pc = "idle"
    /\ device = [banner |-> "Unknown", nvrf |-> 0, empty |-> TRUE, failing |-> {}]
    /\ check_mode = FALSE
    /\ raw_fact_type = "all"
    /\ fact_type = "all"
    /\ operating_system = "IOS"
    /\ facts = EmptyFacts
    /\ sent = <<>>
    /\ exited = <<>>
    /\ prev = <<>>

GetRoutes ==
    \/ NxUbestLine \/ NxViaLine \/ NxOtherLine \/ NxReturn
    \/ IosPlainLine \/ IosOspfLine \/ IosOspfContinuation \/ IosOspfOtherLine \/ IosReturn

RunModule ==
    \/ ParseParams \/ CheckModeExit \/ DetectOS
    \/ Interfaces \/ Inventory \/ License \/ MacAddressTable
    \/ Routes \/ RouteNeighbors \/ Vrfs \/ ExitJson

----------------------------------------------------------------------------
(* format_mac_address. A string is the sequence of its characters.        *)

\* the characters the strings are made of
MacChars == {"a", "B", "0", "g", "-", ".", ":", " ", "_"}

Delimiters == {".", ":", "-"}
Whitespace == {" "}

\* str.isalnum() on one character
IsAlnumChar(c) == c \in {"0", "1", "2", "3", "4", "5", "6", "7", "8", "9",
                         "a", "b", "c", "d", "e", "f", "g", "m", "n", "o", "t",
                         "A", "B", "C", "D", "E", "F", "G"}

\* str.lower() on one character
LowerChar(c) ==
    CASE c = "A" -> "a" [] c = "B" -> "b" [] c = "C" -> "c" [] c = "D" -> "d"
      [] c = "E" -> "e" [] c = "F" -> "f" [] c = "G" -> "g" [] OTHER -> c

\* the delimiters removed, the case kept
StripAndLower_KeepCase(s) == SelectSeq(s, LAMBDA c : c \notin Delimiters)

\* line 164
StripAndLower(s) ==
    LET kept == SelectSeq(s, LAMBDA c : c \notin Delimiters)
    IN [i \in 1..Len(kept) |-> LowerChar(kept[i])]

\* line 166
RemoveWhitespace(s) == SelectSeq(s, LAMBDA c : c \notin Whitespace)

\* only the length is asserted
IsTwelveAlnum_LengthOnly(mac) == Len(mac) = 12

\* lines 168-169: the two asserts pass
IsTwelveAlnum(mac) == Len(mac) = 12 /\ \A i \in 1..Len(mac) : IsAlnumChar(mac[i])

\* line 170
JoinPairs(mac) ==
    [i \in 1..17 |-> IF i % 3 = 0 THEN ":" ELSE mac[i - (i \div 3)]]

\* lines 162-173
format_mac_address(s) ==
    LET mac == RemoveWhitespace(StripAndLower(s))
    IN IF IsTwelveAlnum(mac) THEN JoinPairs(mac) ELSE s

\* the pairs of characters the rendered inputs are built from
MacPairs == { <<"a", "2">>, <<"B", "F">>, <<"0", "g">>, <<"a", "_">> }

MacStyles == {"dot", "colon", "dash", "space", "plain"}

\* the pairs written one after the other, with the style's delimiter between
\* pairs (between groups of two pairs for the dot style)
RECURSIVE Render(_, _, _)
Render(pairs, style, k) ==
    IF k > Len(pairs) THEN <<>>
    ELSE LET sep == IF k = Len(pairs) THEN <<>>
                    ELSE CASE style = "dot" -> IF k % 2 = 0 THEN <<".">> ELSE <<>>
                           [] style = "colon" -> <<":">>
                           [] style = "dash" -> <<"-">>
                           [] style = "space" -> <<" ">>
                           [] OTHER -> <<>>
         IN pairs[k] \o sep \o Render(pairs, style, k + 1)

\* not-a-mac
NotAMac == <<"n", "o", "t", "-", "a", "-", "m", "a", "c">>

NoSource == [pairs |-> <<>>, style |-> "free"]

MacInit ==
    /\ mac_pc = "input"
    /\ \/ /\ mac_source \in { [pairs |-> p, style |-> st] :
                                p \in UNION { [1..n -> MacPairs] : n \in 5..7 },
                                st \in MacStyles }
          /\ mac_address = Render(mac_source.pairs, mac_source.style, 1)
       \/ /\ mac_source = NoSource
          /\ mac_address \in SeqsUpTo(MacChars, MaxMacChars) \cup {NotAMac}
    /\ mac_once = <<>>
    /\ mac_twice = <<>>

MacIdle ==
    /\ mac_pc = "idle"
    /\ mac_source = NoSource
    /\ mac_address = <<>>
    /\ mac_once = <<>>
    /\ mac_twice = <<>>

\* a caller formats the address
FormatMac ==
    /\ mac_pc = "input"
    /\ mac_once' = format_mac_address(mac_address)
    /\ mac_pc' = "once"
    /\ UNCHANGED <<mac_source, mac_address, mac_twice>>
    /\ UNCHANGED <<runVars, rtVars, mtVars, ifVars>>

\* and formats the result again
FormatMacAgain ==
    /\ mac_pc = "once"
    /\ mac_twice' = format_mac_address(mac_once)
    /\ mac_pc' = "twice"
    /\ UNCHANGED <<mac_source, mac_address, mac_once>>
    /\ UNCHANGED <<runVars, rtVars, mtVars, ifVars>>

----------------------------------------------------------------------------
(* get_mac_address_table, lines 406-424. A line of the output is whether   *)
(* it starts with "* " and its whitespace-separated tokens; a token is a   *)
(* sequence of pieces, a MAC token the sequence of its characters.         *)

MtLine(star, toks) == [star |-> star, toks |-> toks]

\* a2a2.a2a2.a2a2 and BFBF.BFBF.BFBF
MtMacs == { Render([k \in 1..6 |-> pair], "dot", 1) : pair \in {<<"a", "2">>, <<"B", "F">>} }

MtVlans == {"10", "20"}
MtPorts == {"Eth1/1", "Po10"}

\* * 10       a2a2.a2a2.a2a2    dynamic   0          F    F  Eth1/1
MtEntryLine(vlan, mac, port) ==
    MtLine(TRUE, << <<"*">>, <<vlan>>, mac, <<"dynamic">>, <<"0">>, <<"F">>, <<"F">>, <<port>> >>)

\* the lines the command output is made of
MtLines ==
    { MtEntryLine(vlan, mac, port) : vlan \in MtVlans, mac \in MtMacs, port \in MtPorts }
    \cup {
      \* * 10 a2a2.a2a2.a2a2 dynamic
      MtLine(TRUE, << <<"*">>, <<"10">>, Render([k \in 1..6 |-> <<"a", "2">>], "dot", 1),
                      <<"dynamic">> >>),
      \* G    -     BFBF.BFBF.BFBF    static       -       F    F  sup-eth1(R)
      MtLine(FALSE, << <<"G">>, <<"-">>, Render([k \in 1..6 |-> <<"B", "F">>], "dot", 1),
                       <<"static">>, <<"-">>, <<"F">>, <<"F">>, <<"sup-eth1(R)">> >>),
      \*    VLAN     MAC Address      Type      age     Secure NTFY Ports
      MtLine(FALSE, << <<"VLAN">>, <<"MAC">>, <<"Address">>, <<"Type">>, <<"age">>,
                       <<"Secure">>, <<"NTFY">>, <<"Ports">> >>),
      \* the empty line
      MtLine(FALSE, <<>>) }

\* the position of the key in the dict, 0 when it is not in
MtIndexOf(table, interface) ==
    IF \E k \in 1..Len(table) : table[k].interface = interface
    THEN CHOOSE k \in 1..Len(table) : table[k].interface = interface
    ELSE 0

\* the list of the interface started anew by every line
MtAppend_Reset(table, interface, entry) ==
    LET k == MtIndexOf(table, interface)
    IN IF k = 0
       THEN Append(table, [interface |-> interface, mac_addresses |-> <<entry>>])
       ELSE [table EXCEPT ![k].mac_addresses = <<entry>>]

\* lines 418-420
MtAppend(table, interface, entry) ==
    LET k == MtIndexOf(table, interface)
    IN IF k = 0
       THEN Append(table, [interface |-> interface, mac_addresses |-> <<entry>>])
       ELSE [table EXCEPT ![k].mac_addresses = Append(@, entry)]

MacTableInit ==
    /\ mt_pc = "loop"
    /\ mt_lines \in SeqsUpTo(MtLines, MaxMacLines)
    /\ mt_i = 1
    /\ mt_table = <<>>
    /\ mt_result = None

MacTableIdle ==
    /\ mt_pc = "idle"
    /\ mt_lines = <<>>
    /\ mt_i = 1
    /\ mt_table = <<>>
    /\ mt_result = None

\* lines 413-420: a line starting with "* " that has the eight columns
MtStarLine ==
    /\ mt_pc = "loop" /\ mt_i <= Len(mt_lines)
    /\ mt_lines[mt_i].star /\ Len(mt_lines[mt_i].toks) >= 8
    /\ LET splitter == mt_lines[mt_i].toks
           vlan == splitter[2]
           mac == format_mac_address(splitter[3])
           interface == splitter[8]
       IN mt_table' = MtAppend(mt_table, interface,
                               [mac_address |-> mac, vlan_id |-> vlan])
    /\ mt_i' = mt_i + 1
    /\ UNCHANGED <<mt_pc, mt_lines, mt_result>>
    /\ UNCHANGED <<runVars, rtVars, macVars, ifVars>>

\* lines 415-417: a line starting with "* " with fewer columns, IndexError
MtShortStarLine ==
    /\ mt_pc = "loop" /\ mt_i <= Len(mt_lines)
    /\ mt_lines[mt_i].star /\ Len(mt_lines[mt_i].toks) < 8
    /\ mt_pc' = "raised"
    /\ UNCHANGED <<mt_lines, mt_i, mt_table, mt_result>>
    /\ UNCHANGED <<runVars, rtVars, macVars, ifVars>>

\* line 413: any other line
MtOtherLine ==
    /\ mt_pc = "loop" /\ mt_i <= Len(mt_lines)
    /\ ~mt_lines[mt_i].star
    /\ mt_i' = mt_i + 1
    /\ UNCHANGED <<mt_pc, mt_lines, mt_table, mt_result>>
    /\ UNCHANGED <<runVars, rtVars, macVars, ifVars>>

\* lines 421-424
MtReturn ==
    /\ mt_pc = "loop" /\ mt_i > Len(mt_lines)
    /\ mt_result' = IF Len(mt_table) > 0 THEN Some(mt_table) ELSE None
    /\ mt_pc' = "returned"
    /\ UNCHANGED <<mt_lines, mt_i, mt_table>>
    /\ UNCHANGED <<runVars, rtVars, macVars, ifVars>>

GetMacAddressTable == MtStarLine \/ MtShortStarLine \/ MtOtherLine \/ MtReturn

----------------------------------------------------------------------------
(* _get_interfaces_nxos, lines 469-514: the detail output of one interface *)
(* of the brief table. A line below the first is the label the elif chain  *)
(* finds in it and the texts the branch cuts out of it.                    *)

IfLine(label, first, second, mac) ==
    [label |-> label, first |-> first, second |-> second, mac |-> mac]

\* the lines the detail output is made of
IfLines == {
    \*   Hardware: Ethernet, address: a2a2.a2a2.a2a2 (bia a2a2.a2a2.a2a2)
    IfLine("Hardware:", "Ethernet", "", Some(Render([k \in 1..6 |-> <<"a", "2">>], "dot", 1))),
    \*   Hardware is EtherSVI, address is  BFBF.BFBF.BFBF
    IfLine("Hardware is", "EtherSVI", "", Some(Render([k \in 1..6 |-> <<"B", "F">>], "dot", 1))),
    \*   Hardware is Loopback
    IfLine("Hardware is", "Loopback", "", None),
    \*   Description: uplink
    IfLine("Description:", "uplink", "", None),
    \*   Internet Address is 10.1.1.1/24
    IfLine("Internet Address", "10.1.1.1", "24", None),
    \*   MTU 1500 bytes, BW 1000000 Kbit, DLY 10 usec
    IfLine("MTU", "1500", "1000000", None),
    \*   full-duplex, 1000 Mb/s, media type is 10G
    IfLine("duplex", "full", "10G", None),
    \*   reliability 255/255, txload 1/255, rxload 1/255
    IfLine("", "", "", None) }

\* Eth1/1  10.1.1.1  protocol-up/link-up/admin-up
IfBrief == [name |-> "Eth1/1", lineprotocol |-> "up", operstatus |-> "up"]

\* lines 472-480
IfNoFields ==
    [mtu |-> None, subnet_mask |-> None, ip_address |-> None, type |-> None,
     duplex |-> None, bandwidth |-> None, mediatype |-> None, mac_address |-> None,
     description |-> None]

\* lines 482-508: the branch of the elif chain the line takes
IfParseLine(f, line) ==
    CASE line.label = "Hardware:" \/ line.label = "Hardware is" ->
            \* splitter2[1] missing: the IndexError is swallowed, lines 487 and 494
            [f EXCEPT !.type = Some(line.first),
                      !.mac_address = IF line.mac.none THEN @
                                      ELSE Some(format_mac_address(line.mac.v))]
      [] line.label = "Description:" ->
            [f EXCEPT !.description = Some(line.first)]
      [] line.label = "Internet Address" ->
            [f EXCEPT !.ip_address = Some(line.first), !.subnet_mask = Some(line.second)]
      [] line.label = "MTU" ->
            [f EXCEPT !.mtu = Some(line.first), !.bandwidth = Some(line.second)]
      [] line.label = "duplex" ->
            [f EXCEPT !.duplex = Some(IF line.first = "full" THEN "full" ELSE "half"),
                      !.mediatype = Some(line.second)]
      [] OTHER -> f

\* int() of the decimal texts of the lines
IntOf(text) ==
    CASE text = "1500" -> 1500 [] text = "1000000" -> 1000000 [] OTHER -> 0

\* int(None) raises TypeError
IntRaises(x) == x.none

\* str(): the text itself, the text 'None' for None
StrOf(x) == IF x.none THEN Some("None") ELSE x

\* lines 509-514: the dict stored under the interface name
IfRecord(f) ==
    [mtu |-> IntOf(f.mtu.v),
     ipv4 |-> <<[subnet |-> StrOf(f.subnet_mask), address |-> f.ip_address]>>,
     type |-> f.type, duplex |-> f.duplex, bandwidth |-> IntOf(f.bandwidth.v),
     mediatype |-> f.mediatype, macaddress |-> f.mac_address,
     operstatus |-> IfBrief.operstatus, description |-> f.description,
     lineprotocol |-> IfBrief.lineprotocol]

IfacesInit ==
    /\ if_pc = "loop"
    /\ if_lines \in SeqsUpTo(IfLines, MaxIfLines)
    /\ if_i = 1
    /\ if_fields = IfNoFields
    /\ if_interfaces = <<>>

IfacesIdle ==
    /\ if_pc = "idle"
    /\ if_lines = <<>>
    /\ if_i = 1
    /\ if_fields = IfNoFields
    /\ if_interfaces = <<>>

\* lines 481-508: one line of the detail output
IfDetailLine ==
    /\ if_pc = "loop" /\ if_i <= Len(if_lines)
    /\ if_fields' = IfParseLine(if_fields, if_lines[if_i])
    /\ if_i' = if_i + 1
    /\ UNCHANGED <<if_pc, if_lines, if_interfaces>>
    /\ UNCHANGED <<runVars, rtVars, macVars, mtVars>>

\* lines 509-514: the record is stored
IfStore ==
    /\ if_pc = "loop" /\ if_i > Len(if_lines)
    /\ ~IntRaises(if_fields.mtu) /\ ~IntRaises(if_fields.bandwidth)
    /\ if_interfaces' = Append(if_interfaces,
                               [name |-> IfBrief.name, record |-> IfRecord(if_fields)])
    /\ if_pc' = "stored"
    /\ UNCHANGED <<if_lines, if_i, if_fields>>
    /\ UNCHANGED <<runVars, rtVars, macVars, mtVars>>

\* lines 509-511: int(None), TypeError out of _get_interfaces_nxos
IfStoreRaises ==
    /\ if_pc = "loop" /\ if_i > Len(if_lines)
    /\ IntRaises(if_fields.mtu) \/ IntRaises(if_fields.bandwidth)
    /\ if_pc' = "raised"
    /\ UNCHANGED <<if_lines, if_i, if_fields, if_interfaces>>
    /\ UNCHANGED <<runVars, rtVars, macVars, mtVars>>

GetInterfaces == IfDetailLine \/ IfStore \/ IfStoreRaises

----------------------------------------------------------------------------
(* Specifications *)

\* one invocation of the module
Init == RunInit /\ RoutesIdle /\ MacIdle /\ MacTableIdle /\ IfacesIdle
Next == RunModule
Spec == Init /\ [][Next]_vars

\* a play of two invocations
NextPlay == RunModule \/ Reinvoke
SpecPlay == Init /\ [][NextPlay]_vars

\* one call of get_routes on the output of its command
InitRoutes == RunIdle /\ RoutesInit /\ MacIdle /\ MacTableIdle /\ IfacesIdle
SpecRoutes == InitRoutes /\ [][GetRoutes]_vars

\* format_mac_address applied to a string, and to its own result
InitMac == RunIdle /\ RoutesIdle /\ MacInit /\ MacTableIdle /\ IfacesIdle
NextMac == FormatMac \/ FormatMacAgain
SpecMac == InitMac /\ [][NextMac]_vars

\* one call of get_mac_address_table on the output of its command
InitMacTable == RunIdle /\ RoutesIdle /\ MacIdle /\ MacTableInit /\ IfacesIdle
SpecMacTable == InitMacTable /\ [][GetMacAddressTable]_vars

\* the detail parse of one interface in _get_interfaces_nxos
InitIfaces == RunIdle /\ RoutesIdle /\ MacIdle /\ MacTableIdle /\ IfacesInit
SpecIfaces == InitIfaces /\ [][GetInterfaces]_vars

----------------------------------------------------------------------------
(* Properties of run_module *)

FactKeys == {"ansible_net_interfaces", "ansible_net_inventory", "ansible_net_license",
             "ansible_net_mac_address_table", "ansible_net_routes",
             "ansible_net_route_neighbors", "ansible_net_vrfs"}

Range(seq) == {seq[i] : i \in 1..Len(seq)}

\* C1: a run outside check mode that reaches exit_json returns all seven
\* fact keys, for every selector and dialect.
C1_AllSevenKeysReturned ==
    (pc = "done" /\ ~check_mode) => FactKeys \subseteq DOMAIN exited[1].ansible_facts

\* C2: once the version banner has been read, a failure inside an extractor
\* never aborts the run: exit_json is reached and the failing fact is None.
C2_ExtractorFailureNeverAborts ==
    (~check_mode /\ pc \in {"done", "raised"} /\ ~Fails(device, Cmd("show version")))
        => /\ pc = "done"
           /\ exited # <<>>

\* C3: an unrecognized or missing fact_type sends the same commands and
\* returns the same bundle as fact_type = "all" on the same device.
C3_UnrecognizedBehavesAsAll ==
    (prev # <<>> /\ pc \in {"done", "raised"} /\ prev[1].raw_fact_type \notin FactTypes)
        => /\ sent = prev[1].sent
           /\ exited = prev[1].exited
           /\ pc = prev[1].pc

C3_Witness ==
    /\ prev # <<>> /\ pc = "done" /\ ~check_mode
    /\ prev[1].raw_fact_type = "bogus"
    /\ operating_system = "NXOS"
    /\ Cmd("show vrf") \in Range(sent)
    /\ ~exited[1].ansible_facts["ansible_net_inventory"].none

\* C4: in check mode no command is sent, whatever the fact_type, and the
\* result is changed=False with an empty ansible_facts.
C4_CheckModeSendsNothing ==
    check_mode =>
        /\ sent = <<>>
        /\ pc # "raised"
        /\ pc = "done" => exited = <<[changed |-> FALSE, ansible_facts |-> EmptyFacts]>>

C4_Witness ==
    /\ check_mode /\ pc = "done" /\ raw_fact_type = "routes"
    /\ device.failing = {}
    /\ exited = <<[changed |-> FALSE, ansible_facts |-> EmptyFacts]>>

\* the routes of one VRF row: those of the route types whose fetch
\* succeeded, in ROUTE_TYPES order
FetchedRoutes(row, k) ==
    IF Fails(device, RouteCmd(operating_system, ROUTE_TYPES[k], row.name)) THEN <<>>
    ELSE DeviceRoutes(device, ROUTE_TYPES[k], row.name)

ExpectedVrfRecord(row) ==
    [name |-> row.name, interfaces |-> VrfInterfaces(row),
     routes |-> FetchedRoutes(row, 1) \o FetchedRoutes(row, 2)
                \o FetchedRoutes(row, 3) \o FetchedRoutes(row, 4)]

\* C8: whatever route fetches fail, get_vrfs returns one record per row of
\* `show vrf`, with the row's name and interfaces and the routes of the
\* kinds that were fetched, and it asks for every kind of every row.
C8_VrfRecordSurvivesFailedFetch ==
    (pc \in {"exit", "done"} /\ ~check_mode /\ fact_type \in {"vrfs", "all"})
        => LET got == facts["ansible_net_vrfs"]
           IN /\ ~got.none
              /\ Len(got.v) = device.nvrf
              /\ \A i \in 1..device.nvrf : got.v[i] = ExpectedVrfRecord(VrfTable[i])
              /\ \A i \in 1..device.nvrf : \A k \in 1..Len(ROUTE_TYPES) :
                    RouteCmd(operating_system, ROUTE_TYPES[k], VrfTable[i].name)
                        \in Range(sent)

C8_Witness ==
    /\ pc = "done" /\ ~check_mode /\ fact_type = "vrfs"
    /\ device.nvrf = 2 /\ ~device.empty
    /\ Fails(device, RouteCmd(operating_system, "connected", "Mgmt-intf"))
    /\ Len(facts["ansible_net_vrfs"].v) = 2
    /\ Len(facts["ansible_net_vrfs"].v[1].routes) = 3

----------------------------------------------------------------------------
(* Properties of the route parsers *)

PrivateOrDefault(route) ==
    route = DefaultRoute \/ (IsIPv4(BeforeSep(route, "/")) /\ is_private(BeforeSep(route, "/")))

IsPublicLine(line) ==
    /\ Len(line.toks) >= 2
    /\ \E t \in {line.toks[1], line.toks[2]} :
          IsIPv4(BeforeSep(t, "/")) /\ ~is_private(BeforeSep(t, "/"))

NxIsUbest(line) == HasPiece(line, {"ubest"})
NxIsVia(line) == ~HasPiece(line, {"ubest"}) /\ HasPiece(line, {"via"})

\* the `ubest` lines whose block is routable, in input order
NxBlockStarts ==
    SelectSeq([i \in 1..Len(rt_lines) |-> i],
              LAMBDA i : /\ NxIsUbest(rt_lines[i])
                         /\ NxRoutable(StripCommas(rt_lines[i].toks[1]), rt_type))

\* the `via` lines between a `ubest` line and the next one
NxBlockVias(i) ==
    SelectSeq([j \in 1..Len(rt_lines) |-> j],
              LAMBDA j : /\ j > i
                         /\ NxIsVia(rt_lines[j])
                         /\ \A m \in (i + 1)..j : ~NxIsUbest(rt_lines[m]))

NxBlockRoute(i) ==
    [route |-> StripCommas(rt_lines[i].toks[1]), kind |-> NxKind(rt_type),
     next_hop |-> Some([n \in 1..Len(NxBlockVias(i)) |->
                            NxNextHop(rt_lines[NxBlockVias(i)[n]], rt_type)])]

\* every `ubest` line is followed by a `via` line
NxEveryBlockHasVia ==
    \A i \in 1..Len(rt_lines) :
        NxIsUbest(rt_lines[i]) => (i < Len(rt_lines) /\ NxIsVia(rt_lines[i + 1]))

\* C6: _get_routes_nxos returns one route per routable `ubest` block, in
\* input order, each with exactly the `via` lines of its own block and none
\* of another block (stated for outputs in which every block has a `via`
\* line).
C6_OneRoutePerBlockWithItsOwnVias ==
    (rt_pc = "returned" /\ rt_os = "NXOS" /\ NxEveryBlockHasVia)
        => rt_result = [n \in 1..Len(NxBlockStarts) |-> NxBlockRoute(NxBlockStarts[n])]

\* the two-line entry of the specification's example
C7_SpecExample ==
    << Line(FALSE, << <<"O">>, Prefix("172.16.5.0", "24"), <<"[110/2]">> >>),
       Line(TRUE, << <<"via">>, <<"10.0.0.1", ",">>, <<"TenGigabitEthernet0/1">> >>) >>

C7_ExpectedRoute(route) ==
    [route |-> route, kind |-> "OSPF",
     next_hop |-> Some(<<[address |-> Some(<<"10.0.0.1">>),
                          interface |-> Some(<<"TenGigabitEthernet0/1">>)]>>)]

\* C7 as stated: `O 172.16.5.0/24 [110/2]` followed by
\* `via 10.0.0.1, TenGigabitEthernet0/1` yields exactly one route, with next
\* hop 10.0.0.1 on TenGigabitEthernet0/1.
C7_ThreeTokenHeadYieldsOneRoute ==
    (rt_os = "IOS" /\ rt_type = "OSPF" /\ rt_lines = C7_SpecExample
     /\ rt_pc \in {"returned", "raised"})
        => /\ rt_pc = "returned"
           /\ rt_result = <<C7_ExpectedRoute(Prefix("172.16.5.0", "24"))>>

\* an O line that holds only a private or default prefix
IsBareOspfHead(line) ==
    /\ StartsWithCode(line, "O")
    /\ Len(line.toks) = 2
    /\ PrivateOrDefault(line.toks[2])

\* C7 amended: an O line of fewer than three tokens (`O 172.16.5.0/24`)
\* followed by one continuation line `[110/2] via 10.0.0.1, 00:00:12,
\* TenGigabitEthernet0/1` yields exactly one route for the prefix, whose one
\* next hop has the continuation line's third token (10.0.0.1) as address and
\* its last token as interface.
C7_BareHeadAndContinuationYieldOneRoute ==
    (rt_os = "IOS" /\ rt_type = "OSPF" /\ Len(rt_lines) = 2
     /\ IsBareOspfHead(rt_lines[1]) /\ rt_lines[2] = IosContinuationLine
     /\ rt_pc \in {"returned", "raised"})
        => /\ rt_pc = "returned"
           /\ rt_result = <<C7_ExpectedRoute(rt_lines[1].toks[2])>>

C7_Witness ==
    /\ rt_os = "IOS" /\ rt_type = "OSPF" /\ rt_pc = "returned"
    /\ rt_lines = << Line(FALSE, << <<"O">>, Prefix("172.16.5.0", "24") >>),
                     IosContinuationLine >>
    /\ Len(rt_result) = 1

\* C12: every route returned by either parser carries a next-hop list with
\* at least one entry.
C12_EveryRouteHasANextHop ==
    rt_pc = "returned" =>
        \A j \in 1..Len(rt_result) :
            /\ ~rt_result[j].next_hop.none
            /\ Len(rt_result[j].next_hop.v) >= 1

\* the loop has just taken a next hop from the `via` line before rt_i
NxJustReadVia ==
    /\ rt_os = "NXOS" /\ rt_pc \in {"loop", "returned"}
    /\ rt_i > 1 /\ NxIsVia(rt_lines[rt_i - 1])
    /\ nx_next_hops # <<>>

\* the token after `via`, up to a % sign
NxViaToken(line) == BeforeSep(SplitNoCommas(line)[2], "%")

\* C13 as stated: for every route type, the next hop of a `via` line has
\* exactly one of address and interface set: the address when the token
\* after `via` is an IPv4 address, otherwise the interface.
C13_ExactlyOneOfAddressAndInterface ==
    NxJustReadVia =>
        LET tok == NxViaToken(rt_lines[rt_i - 1])
            hop == Last(nx_next_hops)
        IN hop = IF IsIPv4(tok) THEN [address |-> Some(tok), interface |-> None]
                 ELSE [address |-> None, interface |-> Some(tok)]

\* C13 amended: for BGP and static the next hop has exactly one of address
\* and interface set, the address when the token after `via` is an IPv4
\* address and the interface otherwise; for connected and OSPF an IPv4 token
\* followed by another token gives both, address and that token as
\* interface, and every other `via` line gives the interface alone.
C13_AddressOrInterfaceByRouteType ==
    NxJustReadVia =>
        LET splitter == SplitNoCommas(rt_lines[rt_i - 1])
            tok == NxViaToken(rt_lines[rt_i - 1])
            hop == Last(nx_next_hops)
        IN /\ ~(hop.address.none /\ hop.interface.none)
           /\ rt_type \in {"BGP", "static"} =>
                 hop = IF IsIPv4(tok) THEN [address |-> Some(tok), interface |-> None]
                       ELSE [address |-> None, interface |-> Some(tok)]
           /\ rt_type \in {"connected", "OSPF"} =>
                 hop = IF IsIPv4(tok) /\ Len(splitter) >= 3
                       THEN [address |-> Some(tok), interface |-> Some(splitter[3])]
                       ELSE [address |-> None, interface |-> Some(tok)]

C13_Witness ==
    /\ NxJustReadVia /\ rt_type = "OSPF"
    /\ Last(nx_next_hops) = [address |-> Some(<<"10.0.0.1">>),
                             interface |-> Some(<<"Eth1/1">>)]

----------------------------------------------------------------------------
(* Properties of format_mac_address *)

IsHexChar(c) == c \in {"0", "1", "2", "3", "4", "5", "6", "7", "8", "9",
                       "a", "b", "c", "d", "e", "f", "A", "B", "C", "D", "E", "F"}

AllHexPairs(pairs) == \A k \in 1..Len(pairs) : IsHexChar(pairs[k][1]) /\ IsHexChar(pairs[k][2])

\* six pairs, lower-cased, colons between them
Canonical(pairs) ==
    [i \in 1..17 |-> IF i % 3 = 0 THEN ":"
                     ELSE LowerChar(pairs[(i + 2) \div 3][((i - 1) % 3) + 1])]

\* C9: the dot, colon and dash renderings of twelve hexadecimal digits all
\* format to the digits lower-cased in six colon-separated pairs, and
\* formatting the result of any input again changes nothing.
C9_OneCanonicalFormAndIdempotent ==
    /\ (mac_pc \in {"once", "twice"} /\ mac_source.style \in {"dot", "colon", "dash"}
        /\ Len(mac_source.pairs) = 6 /\ AllHexPairs(mac_source.pairs))
           => mac_once = Canonical(mac_source.pairs)
    /\ mac_pc = "twice" => mac_twice = mac_once

C9_Witness ==
    /\ mac_pc = "twice" /\ mac_source.style = "dot"
    /\ mac_source.pairs = << <<"a", "2">>, <<"B", "F">>, <<"a", "2">>, <<"a", "2">>,
                             <<"B", "F">>, <<"a", "2">> >>
    /\ mac_once # mac_address
    /\ mac_twice = mac_once

\* the argument without delimiters and whitespace
Undelimited(s) == SelectSeq(s, LAMBDA c : c \notin Delimiters \cup Whitespace)

\* C10 as stated: the input comes back unchanged unless it is exactly twelve
\* hexadecimal digits once delimiters and whitespace are removed.
C10_UnchangedUnlessTwelveHex ==
    (mac_pc \in {"once", "twice"}
     /\ ~(Len(Undelimited(mac_address)) = 12
          /\ \A i \in 1..Len(Undelimited(mac_address)) : IsHexChar(Undelimited(mac_address)[i])))
        => mac_once = mac_address

\* C10 amended: the input comes back unchanged unless it is exactly twelve
\* alphanumeric characters once delimiters and whitespace are removed.
C10_UnchangedUnlessTwelveAlnum ==
    (mac_pc \in {"once", "twice"}
     /\ ~(Len(Undelimited(mac_address)) = 12
          /\ \A i \in 1..Len(Undelimited(mac_address)) : IsAlnumChar(Undelimited(mac_address)[i])))
        => mac_once = mac_address

C10_Witness ==
    /\ mac_pc = "once"
    /\ mac_address = NotAMac
    /\ mac_once = NotAMac

----------------------------------------------------------------------------
(* Properties of get_mac_address_table *)

\* the lines starting with "* "
MtStarLines == SelectSeq(mt_lines, LAMBDA l : l.star)

\* the entries of the "* " lines that name the interface, in input order
MtEntriesOf(interface) ==
    LET sel == SelectSeq(MtStarLines, LAMBDA l : l.toks[8] = interface)
    IN [k \in 1..Len(sel) |-> [mac_address |-> format_mac_address(sel[k].toks[3]),
                               vlan_id |-> sel[k].toks[2]]]

----------------------------------------------------------------------------
(* Properties of _get_interfaces_nxos *)

\* the label occurs in no line of the detail output
IfMissing(label) == \A k \in 1..Len(if_lines) : if_lines[k].label # label

\* C14: when the detail output lacks a labeled line, the record is still
\* produced and added to the mapping with each field that was not found set
\* to null; a missing field never raises.
C14_MissingLineLeavesFieldNull ==
    /\ if_pc # "raised"
    /\ if_pc = "stored" =>
          /\ Len(if_interfaces) = 1
          /\ LET r == if_interfaces[1].record
             IN /\ IfMissing("Internet Address") =>
                       r.ipv4 = <<[subnet |-> None, address |-> None]>>
                /\ IfMissing("duplex") => r.duplex = None /\ r.mediatype = None
                /\ IfMissing("Description:") => r.description = None
                /\ IfMissing("Hardware:") /\ IfMissing("Hardware is") =>
                       r.type = None /\ r.macaddress = None

====
